---- MODULE Spec2Model ----
(***************************************************************************)
(* LiteBot: the expiring-event dispatcher (litebot.py), the command/event  *)
(* registry (GroupMixin, litebot.py) and the server-command framework      *)
(* (ServerCommand, action.py).                                             *)
(***************************************************************************)
EXTENDS Integers, Sequences, FiniteSets, TLC

\* ------------------------------------------------------------------ bounds
MaxEvents == 2      \* TrackedEvent records ever created
MaxTime == 1        \* the clock runs 0..MaxTime
MaxParams == 2      \* annotated parameters of a command handler
MaxCmds == 3        \* ServerCommand objects in a command tree
MaxListeners == 3   \* listeners registered under one event name
MaxCogs == 2        \* Cogs constructed by add_cog
MaxNesting == 2     \* load_plugin calls under way at once

\* An optional value (an attribute or keyword argument that may be None or
\* left out): <<>> for None, <<v>> for the value v
Nothing == <<>>
Some(v) == <<v>>

\* ------------------------------------------------------------------ state
VARIABLES
    objects,        \* the TrackedEvent collection: a set of records
    utcnow,         \* the UTC clock
    events,         \* the query the dispatcher iterates (records still to come)
    event,          \* the record the for-loop body is working on
    tpc,            \* the dispatcher's position in _dispatch_timers
    dispatched,     \* the notifications handed to self.dispatch, in order
    created,        \* how many TrackedEvent records were ever created
    polls,          \* the polling cycle under way: "none" yet, the "first", a "later" one
    cmds,           \* every ServerCommand object constructed, by identity (its index)
    call,           \* the last operation called on the command framework, with its inputs
    raised,         \* the exception that call raised ("" when it returned)
    ctx,            \* the ServerCommandContext the last create_context built
    all_commands,   \* the chat platform's native registry: name -> native command
    server_commands,\* GroupMixin.server_commands: full name -> ServerCommand
    server_events,  \* GroupMixin.server_events: event name -> list of listeners
    rpc_handlers,   \* GroupMixin.rpc_handlers: name -> RPC handler
    processing_plugin, \* LiteBot.processing_plugin
    cogs,           \* every Cog add_cog constructed and handed on, in order
    loading         \* the load_plugin calls under way, outermost first

tvars == <<objects, utcnow, events, event, tpc, dispatched, created, polls>>
cvars == <<cmds, call, raised, ctx>>
rvars == <<all_commands, server_commands, server_events>>
pvars == <<rpc_handlers, processing_plugin, cogs, loading>>
vars == <<tvars, cvars, rvars, pvars>>

\* ------------------------------------------------------- TrackedEvent model
EventTags == {"mute", "ban"}

\* the loop variable `event` before the first iteration binds it (no record
\* has id 0)
NoEvent == [id |-> 0, event_tag |-> "", expire_time |-> Nothing]
Times == 0..MaxTime

\* f"{event.event_tag}_expire"
ExpireName(event_tag) == event_tag \o "_expire"

\* `not event.expire_time`: a datetime is always truthy, only None is falsy
NoExpire(expire_time) == expire_time = Nothing

\* faulty variant: the comparison with the clock is lost
IsExpiredMut(now, expire_time) == TRUE
\* `datetime.utcnow() >= event.expire_time`
IsExpired(now, expire_time) == now >= expire_time[1]

\* faulty variant: the record is not deleted
DeleteMut(objs, ev) == objs
\* event.delete(): the record with this id leaves the collection
Delete(objs, ev) == {o \in objs : o.id # ev.id}

TInit ==
    /\ objects = {}
    /\ utcnow = 0
    /\ events = <<>>
    /\ event = NoEvent
    /\ tpc = "query"
    /\ dispatched = <<>>
    /\ created = 0
    /\ polls = "none"

\* Application code (a command or a listener) stores a new TrackedEvent. A
\* query that is being iterated may or may not come to see the new record.
CreateEvent ==
    /\ created < MaxEvents
    /\ \E tag \in EventTags, exp \in {Some(t) : t \in Times} \cup {Nothing}, seen \in BOOLEAN :
         LET rec == [id |-> created + 1, event_tag |-> tag, expire_time |-> exp] IN
         /\ objects' = objects \cup {rec}
         /\ events' = IF seen /\ tpc = "for" THEN Append(events, rec) ELSE events
    /\ created' = created + 1
    /\ UNCHANGED <<utcnow, event, tpc, dispatched, polls>>
    /\ UNCHANGED <<cvars, rvars, pvars>>

\* The wall clock advances.
Tick ==
    /\ utcnow < MaxTime
    /\ utcnow' = utcnow + 1
    /\ UNCHANGED <<objects, events, event, tpc, dispatched, created, polls>>
    /\ UNCHANGED <<cvars, rvars, pvars>>

RECURSIVE SetToSeq(_)
SetToSeq(S) ==
    IF S = {} THEN <<>>
    ELSE LET m == CHOOSE x \in S : \A y \in S : x.id <= y.id
         IN <<m>> \o SetToSeq(S \ {m})

\* events = TrackedEvent.objects()
Query ==
    /\ tpc = "query"
    /\ events' = SetToSeq(objects)
    /\ tpc' = "for"
    /\ polls' = IF polls = "none" THEN "first" ELSE "later"
    /\ UNCHANGED <<objects, utcnow, event, dispatched, created>>
    /\ UNCHANGED <<cvars, rvars, pvars>>

\* for event in events: the next record, or the end of this polling cycle
ForNext ==
    /\ tpc = "for"
    /\ events # <<>>
    /\ event' = Head(events)
    /\ events' = Tail(events)
    /\ tpc' = "body"
    /\ UNCHANGED <<objects, utcnow, dispatched, created, polls>>
    /\ UNCHANGED <<cvars, rvars, pvars>>

ForEnd ==
    /\ tpc = "for"
    /\ events = <<>>
    /\ tpc' = "query"
    /\ UNCHANGED <<objects, utcnow, events, event, dispatched, created, polls>>
    /\ UNCHANGED <<cvars, rvars, pvars>>

\* faulty variant: the `continue` is lost: a record with no expire_time falls through
\* to the dispatch
SkipNoExpireMut ==
    /\ tpc = "body"
    /\ NoExpire(event.expire_time)
    /\ dispatched' = Append(dispatched,
            [name |-> ExpireName(event.event_tag), event |-> event,
             at |-> utcnow, poll |-> polls])
    /\ tpc' = "delete"
    /\ UNCHANGED <<objects, utcnow, events, event, created, polls>>
    /\ UNCHANGED <<cvars, rvars, pvars>>

\* if not event.expire_time: continue
SkipNoExpire ==
    /\ tpc = "body"
    /\ NoExpire(event.expire_time)
    /\ tpc' = "for"
    /\ UNCHANGED <<objects, utcnow, events, event, dispatched, created, polls>>
    /\ UNCHANGED <<cvars, rvars, pvars>>

\* if datetime.utcnow() >= event.expire_time: (false: next record)
SkipNotYet ==
    /\ tpc = "body"
    /\ ~NoExpire(event.expire_time)
    /\ ~IsExpired(utcnow, event.expire_time)
    /\ tpc' = "for"
    /\ UNCHANGED <<objects, utcnow, events, event, dispatched, created, polls>>
    /\ UNCHANGED <<cvars, rvars, pvars>>

\* name = f"{event.event_tag}_expire"; self.dispatch(name, event)
Dispatch ==
    /\ tpc = "body"
    /\ ~NoExpire(event.expire_time)
    /\ IsExpired(utcnow, event.expire_time)
    /\ dispatched' = Append(dispatched,
            [name |-> ExpireName(event.event_tag), event |-> event,
             at |-> utcnow, poll |-> polls])
    /\ tpc' = "delete"
    /\ UNCHANGED <<objects, utcnow, events, event, created, polls>>
    /\ UNCHANGED <<cvars, rvars, pvars>>

\* event.delete()
DeleteEvent ==
    /\ tpc = "delete"
    /\ objects' = Delete(objects, event)
    /\ tpc' = "for"
    /\ UNCHANGED <<utcnow, events, event, dispatched, created, polls>>
    /\ UNCHANGED <<cvars, rvars, pvars>>

DispatchTimers ==
    \/ Query
    \/ ForNext
    \/ ForEnd
    \/ SkipNoExpire
    \/ SkipNotYet
    \/ Dispatch
    \/ DeleteEvent

TNext ==
    \/ CreateEvent
    \/ Tick
    \/ DispatchTimers

\* ------------------------------------------------------------------ failures
\* self.dispatch(name, event) raises: nothing in _dispatch_timers catches the
\* exception, which leaves the `while True` loop and ends the worker thread
DispatchRaises ==
    /\ tpc = "body"
    /\ ~NoExpire(event.expire_time)
    /\ IsExpired(utcnow, event.expire_time)
    /\ tpc' = "raised"
    /\ UNCHANGED <<objects, utcnow, events, event, dispatched, created, polls>>
    /\ UNCHANGED <<cvars, rvars, pvars>>

\* event.delete() raises: likewise
DeleteRaises ==
    /\ tpc = "delete"
    /\ tpc' = "raised"
    /\ UNCHANGED <<objects, utcnow, events, event, dispatched, created, polls>>
    /\ UNCHANGED <<cvars, rvars, pvars>>

TFaultNext ==
    \/ TNext
    \/ DispatchRaises
    \/ DeleteRaises

\* ============================================================ ServerCommand
\* ------------------------------------------------- handlers and annotations
\* The classes an annotation can name: two ArgumentType subclasses (one of
\* them a Suggester too), a class that is no ArgumentType, and the context.
ArgumentTypes == {"IntArg", "PlayerArg"}
Suggesters == {"PlayerArg"}
OtherTypes == {"str"}
ServerCommandContext == "ServerCommandContext"

\* arg_type.REPR
REPR(arg_type) == IF arg_type = "IntArg" THEN "int" ELSE "player"

\* An annotation: a bare class, or Optional[class] (a generic with arguments)
Bare(t) == [origin |-> t, args |-> <<>>]
OptionalOf(t) == [origin |-> "Union", args |-> <<t, "NoneType">>]
Annotations ==
    {Bare(t) : t \in ArgumentTypes \cup OtherTypes \cup {ServerCommandContext}}
        \cup {OptionalOf(t) : t \in ArgumentTypes \cup OtherTypes}

\* typing.get_args
get_args(ann) == ann.args

ParamName(i) == "x" \o ToString(i)

\* get_type_hints(func).items(): the annotated parameters in declaration
\* order, then "return" when the handler annotates its result
ParamHints(n) ==
    {[i \in 1..n |-> [name |-> ParamName(i), ann |-> f[i]]] : f \in [1..n -> Annotations]}
HintSeqs ==
    LET params == UNION {ParamHints(n) : n \in 0..MaxParams}
    IN params \cup {Append(h, [name |-> "return", ann |-> Bare("NoneType")]) : h \in params}

\* A handler: its __name__, whether it is a coroutine function, its type hints
Handlers(names, hintSeqs) ==
    {[name |-> n, coroutine |-> c, hints |-> h] :
        n \in names, c \in BOOLEAN, h \in hintSeqs}

\* --------------------------------------------------------------- _build_args
\* issubclass(arg_type, ArgumentType)
IsArgumentType(arg_type) == arg_type \in ArgumentTypes

\* faulty variant: the order of required and optional is not checked
RejectArgMut(arg_type, started_optional, generic_args) == ~IsArgumentType(arg_type)
\* the condition that raises ArgumentError
RejectArg(arg_type, started_optional, generic_args) ==
    \/ ~IsArgumentType(arg_type)
    \/ (started_optional /\ generic_args = <<>>)

\* faulty variant: the descriptor records the flag as it was before this parameter
OptionalFlagMut(before, generic_args) == before
\* the flag the descriptor records: started_optional as updated for this
\* parameter (the update precedes args.append)
OptionalFlag(before, generic_args) == before \/ generic_args # <<>>

NoArgs == [raised |-> "", args |-> <<>>, suggestors |-> <<>>, arg_types |-> <<>>]

RECURSIVE BuildArgsLoop(_, _, _, _)
BuildArgsLoop(arg_hints, i, started_optional, acc) ==
    IF i > Len(arg_hints) THEN acc
    ELSE
      LET arg_name == arg_hints[i].name
          generic_args == get_args(arg_hints[i].ann)
          arg_type == IF generic_args # <<>> THEN generic_args[1]
                      ELSE arg_hints[i].ann.origin
      IN IF RejectArg(arg_type, started_optional, generic_args)
         THEN [NoArgs EXCEPT !.raised = "ArgumentError"]
         ELSE
           LET started == OptionalFlag(started_optional, generic_args) IN
           BuildArgsLoop(arg_hints, i + 1, started,
             [acc EXCEPT
                !.args = Append(@, [name |-> arg_name, type |-> REPR(arg_type),
                                    optional |-> started]),
                !.arg_types = (arg_name :> arg_type) @@ @,
                !.suggestors = IF arg_type \in Suggesters
                               THEN (arg_name :> arg_type) @@ @ ELSE @])

_build_args(func) ==
    LET arg_hints == SelectSeq(func.hints,
            LAMBDA h : h.name # "return" /\ h.ann # Bare(ServerCommandContext))
    IN IF arg_hints = <<>> THEN NoArgs
       ELSE BuildArgsLoop(arg_hints, 1, FALSE, NoArgs)

\* ------------------------------------------------------------------ __init__
\* The keyword arguments of command() and .sub(); each may be left out.
Kwargs(names, registers, op_levels) ==
    [name : names, register : registers, op_level : op_levels]

\* ServerCommand.__init__(func, cog=None, **kwargs): the exception raised
\* ("" for none) and the object built
ServerCommand(func, parent, kwargs) ==
    IF ~func.coroutine THEN [raised |-> "TypeError"]
    ELSE
      LET built == _build_args(func) IN
      IF built.raised # "" THEN [raised |-> built.raised]
      ELSE [raised |-> "",
            cmd |-> [name |-> IF kwargs.name # Nothing THEN kwargs.name[1] ELSE func.name,
                     callback |-> func,
                     cog |-> Nothing,
                     parent |-> parent,
                     register |-> IF kwargs.register # Nothing THEN kwargs.register[1]
                                  ELSE TRUE,
                     op_level |-> IF kwargs.op_level # Nothing THEN kwargs.op_level[1]
                                  ELSE 0,
                     arguments |-> built.args,
                     suggestors |-> built.suggestors,
                     arg_types |-> built.arg_types,
                     subs |-> <<>>]]

\* faulty variant: the entry is added next to one that has the same key
DictSetMut(d, k, v) == Append(d, [key |-> k, value |-> v])
\* d[k] = v on a dict kept in insertion order
DictSet(d, k, v) ==
    IF \E i \in DOMAIN d : d[i].key = k
    THEN [i \in DOMAIN d |-> IF d[i].key = k THEN [key |-> k, value |-> v] ELSE d[i]]
    ELSE Append(d, [key |-> k, value |-> v])

CInit ==
    /\ cmds = <<>>
    /\ call = [op |-> "none"]
    /\ raised = ""
    /\ ctx = Nothing

\* GroupMixin.__init__ (and the native registry of commands.Bot.__init__)
RInit ==
    /\ all_commands = <<>>
    /\ server_commands = <<>>
    /\ server_events = <<>>

\* GroupMixin.__init__ (rpc_handlers) and LiteBot.__init__ (processing_plugin)
PInit ==
    /\ rpc_handlers = <<>>
    /\ processing_plugin = Nothing
    /\ cogs = <<>>
    /\ loading = <<>>

\* command(**kwargs)(func)
command(kwargs, func) ==
    LET new == ServerCommand(func, Nothing, kwargs) IN
    /\ call' = [op |-> "command", func |-> func, kwargs |-> kwargs, parent |-> Nothing]
    /\ raised' = new.raised
    /\ cmds' = IF new.raised = "" THEN Append(cmds, new.cmd) ELSE cmds
    /\ UNCHANGED ctx

\* self.sub(**kwargs)(func)
sub(self, kwargs, func) ==
    LET new == ServerCommand(func, Some(self), kwargs) IN
    /\ call' = [op |-> "sub", func |-> func, kwargs |-> kwargs, parent |-> Some(self)]
    /\ raised' = new.raised
    /\ cmds' =
         IF new.raised = ""
         THEN Append([cmds EXCEPT ![self].subs = DictSet(@, new.cmd.name, Len(cmds) + 1)],
                     new.cmd)
         ELSE cmds
    /\ UNCHANGED ctx

\* ------------------------------------------------------ the argument derivation
\* One root command, with every handler signature, and one .sub() call on it,
\* with every handler signature.
ArgsKwargs == Kwargs({Nothing}, {Nothing}, {Nothing})
ArgsHandlers == Handlers({"handler"}, HintSeqs)

ArgsCommand ==
    /\ cmds = <<>>
    /\ \E func \in ArgsHandlers : command(CHOOSE k \in ArgsKwargs : TRUE, func)
    /\ UNCHANGED <<tvars, rvars, pvars>>

ArgsSub ==
    /\ Len(cmds) = 1
    /\ call.op = "command"
    /\ \E func \in ArgsHandlers : sub(1, CHOOSE k \in ArgsKwargs : TRUE, func)
    /\ UNCHANGED <<tvars, rvars, pvars>>

ArgsNext ==
    \/ ArgsCommand
    \/ ArgsSub


\* ------------------------------------------------------------ create_context
\* Python values of a JSON payload, by their repr; bool(v) of each
PyValues == {"1", "0", "False", "''", "None"}
Truthy(v) == v \notin {"0", "False", "''", "None"}

\* dict.get(k): the value, or None
DictGet(d, k) == IF k \in DOMAIN d THEN d[k] ELSE "None"

\* del d[k]
DictDel(d, k) == [j \in DOMAIN d \ {k} |-> d[j]]

\* faulty variant: the value is read after the del
CmdArgValueMut(args, name) == IF Truthy(DictGet(args, name)) THEN "None" ELSE DictGet(args, name)
\* the value stored in cmd_args: args.get(arg["name"]), read before the del
CmdArgValue(args, name) == DictGet(args, name)

\* the incoming payloads {player, args}: "args" is a mapping, or null, or the
\* key is left out
PayloadKeys == {ParamName(i) : i \in 1..MaxParams} \cup {"z"}
PayloadArgs == UNION {[keys -> PyValues] : keys \in SUBSET PayloadKeys}
Payloads ==
    [player : {"Steve"},
     args : {[kind |-> "absent"], [kind |-> "null"]}
                \cup {[kind |-> "dict", value |-> d] : d \in PayloadArgs}]

\* for arg in self.arguments: ...
RECURSIVE CreateContextLoop(_, _, _, _)
CreateContextLoop(arguments, i, cmd_args, args) ==
    IF i > Len(arguments) THEN [cmd_args |-> cmd_args, args |-> args]
    ELSE
      LET name == arguments[i].name IN
      CreateContextLoop(arguments, i + 1,
          (name :> CmdArgValue(args, name)) @@ cmd_args,
          IF Truthy(DictGet(args, name)) THEN DictDel(args, name) ELSE args)

\* self.create_context(server, bot, data): the exception raised ("" for none)
\* and the context built. full_args is data.get("args"): None, or the very
\* dict the loop deletes from. args is data.get("args", {}): None for a null
\* "args", on which args.get raises as soon as there is an argument.
create_context(self, data) ==
    IF data.args.kind = "null" /\ cmds[self].arguments # <<>>
    THEN [raised |-> "AttributeError"]
    ELSE
      LET args == IF data.args.kind = "dict" THEN data.args.value ELSE <<>>
          done == CreateContextLoop(cmds[self].arguments, 1, <<>>, args)
      IN [raised |-> "",
          ctx |-> [command |-> self,
                   player |-> data.player,
                   args |-> done.cmd_args,
                   full_args |-> IF data.args.kind = "dict" THEN Some(done.args)
                                 ELSE Nothing]]

\* One create_context call on the command defined, with every payload.
CreateContext ==
    /\ call.op = "command"
    /\ \E self \in DOMAIN cmds, data \in Payloads :
          LET made == create_context(self, data) IN
          /\ ctx' = IF made.raised = "" THEN Some(made.ctx) ELSE ctx
          /\ call' = [op |-> "create_context", self |-> self, data |-> data]
          /\ raised' = made.raised
    /\ UNCHANGED cmds
    /\ UNCHANGED <<tvars, rvars, pvars>>

ContextNext ==
    \/ ArgsCommand
    \/ CreateContext

\* ------------------------------------------------------ full_name, root_parent
RECURSIVE _get_full_path(_)
_get_full_path(self) ==
    <<cmds[self].name>> \o
        (IF cmds[self].parent # Nothing THEN _get_full_path(cmds[self].parent[1]) ELSE <<>>)

\* self.root_parent: follow .parent until a command that has none
RECURSIVE root_parent(_)
root_parent(self) ==
    IF cmds[self].parent # Nothing THEN root_parent(cmds[self].parent[1]) ELSE self

\* faulty variant: the list is not reversed
ReversedMut(list) == list
\* list[::-1]
Reversed(list) == [i \in 1..Len(list) |-> list[Len(list) + 1 - i]]

\* sep.join(parts)
RECURSIVE Join(_, _)
Join(sep, parts) ==
    IF parts = <<>> THEN ""
    ELSE IF Len(parts) = 1 THEN parts[1]
    ELSE parts[1] \o sep \o Join(sep, Tail(parts))

full_name(self) == Join(".", Reversed(_get_full_path(self)))

\* --------------------------------------------------------- the command tree
\* Trees of up to MaxCmds commands: command() for a root, .sub() on any
\* command for the rest; the name is given or left to the handler's name.
TreeKwargs == Kwargs({Nothing, Some("a"), Some("b")}, {Nothing}, {Nothing})
TreeHandlers == Handlers({"f"}, {<<>>})

TreeCommand ==
    /\ Len(cmds) < MaxCmds
    /\ \E kwargs \in TreeKwargs, func \in TreeHandlers : command(kwargs, func)
    /\ UNCHANGED <<tvars, rvars, pvars>>

TreeSub ==
    /\ Len(cmds) < MaxCmds
    /\ \E self \in DOMAIN cmds, kwargs \in TreeKwargs, func \in TreeHandlers :
          sub(self, kwargs, func)
    /\ UNCHANGED <<tvars, rvars, pvars>>

TreeNext ==
    \/ TreeCommand
    \/ TreeSub

\* The tree of the three names root, sub and subsub.
NamedKwargs == Kwargs({Some("root"), Some("sub"), Some("subsub")}, {Nothing}, {Nothing})

NamedCommand ==
    /\ Len(cmds) < MaxCmds
    /\ \E kwargs \in NamedKwargs, func \in TreeHandlers : command(kwargs, func)
    /\ UNCHANGED <<tvars, rvars, pvars>>

NamedSub ==
    /\ Len(cmds) < MaxCmds
    /\ \E self \in DOMAIN cmds, kwargs \in NamedKwargs, func \in TreeHandlers :
          sub(self, kwargs, func)
    /\ UNCHANGED <<tvars, rvars, pvars>>

NamedNext ==
    \/ NamedCommand
    \/ NamedSub

\* ================================================================ GroupMixin
\* d[k] = v and d.pop(k) on a dict whose order is not read
DictPut(d, k, v) == [j \in DOMAIN d \cup {k} |-> IF j = k THEN v ELSE d[j]]

\* Commands handed to add_command: the chat platform's own (three objects,
\* two of them with the same name) and references to ServerCommand objects.
NativeCommands ==
    {[kind |-> "native", id |-> 1, name |-> "a"],
     [kind |-> "native", id |-> 2, name |-> "b"],
     [kind |-> "native", id |-> 3, name |-> "a"]}
ServerCommandRef(c) == [kind |-> "server", id |-> c]

\* isinstance(command, ServerCommand)
IsServerCommand(cmd) == cmd.kind = "server"

\* commands.GroupMixin.add_command: a name already registered is refused
NativeAdd(cmd) ==
    IF cmd.name \in DOMAIN all_commands
    THEN /\ raised' = "CommandRegistrationError"
         /\ UNCHANGED all_commands
    ELSE /\ raised' = ""
         /\ all_commands' = DictPut(all_commands, cmd.name, cmd)

\* self.add_command(command)
add_command(cmd) ==
    /\ call' = [op |-> "add_command", command |-> cmd]
    /\ IF ~IsServerCommand(cmd)
       THEN /\ NativeAdd(cmd)
            /\ UNCHANGED server_commands
       ELSE /\ server_commands' = DictPut(server_commands, full_name(cmd.id), cmd)
            /\ raised' = ""
            /\ UNCHANGED all_commands
    /\ UNCHANGED <<cmds, ctx, server_events>>

\* faulty variant: the name is removed from both registries
remove_commandMut(name) ==
    /\ call' = [op |-> "remove_command", name |-> name]
    /\ raised' = ""
    /\ all_commands' = DictDel(all_commands, name)
    /\ server_commands' = DictDel(server_commands, name)
    /\ UNCHANGED <<cmds, ctx, server_events>>

\* self.remove_command(name); the native remove_command pops the name if it
\* is there
remove_command(name) ==
    /\ call' = [op |-> "remove_command", name |-> name]
    /\ raised' = ""
    /\ IF name \notin DOMAIN server_commands
       THEN /\ all_commands' = DictDel(all_commands, name)
            /\ UNCHANGED server_commands
       ELSE /\ server_commands' = DictDel(server_commands, name)
            /\ UNCHANGED all_commands
    /\ UNCHANGED <<cmds, ctx, server_events>>

\* The command registry: trees of commands named "a" and "b", added to and
\* removed from the bot together with native commands.
RegistryKwargs == Kwargs({Some("a"), Some("b")}, {Nothing}, {Nothing})
RegistryHandlers == {h \in TreeHandlers : h.coroutine}

RegistryCommand ==
    /\ Len(cmds) < MaxCmds
    /\ \E kwargs \in RegistryKwargs, func \in RegistryHandlers : command(kwargs, func)
    /\ UNCHANGED <<tvars, rvars, pvars>>

RegistrySub ==
    /\ Len(cmds) < MaxCmds
    /\ \E self \in DOMAIN cmds, kwargs \in RegistryKwargs, func \in RegistryHandlers :
          sub(self, kwargs, func)
    /\ UNCHANGED <<tvars, rvars, pvars>>

AddCommand ==
    /\ \E cmd \in NativeCommands \cup {ServerCommandRef(c) : c \in DOMAIN cmds} :
          add_command(cmd)
    /\ UNCHANGED <<tvars, pvars>>

RemoveCommand ==
    /\ \E name \in DOMAIN server_commands \cup DOMAIN all_commands \cup {"a", "b"} :
          remove_command(name)
    /\ UNCHANGED <<tvars, pvars>>

RegistryNext ==
    \/ RegistryCommand
    \/ RegistrySub
    \/ AddCommand
    \/ RemoveCommand

\* ----------------------------------------------------------- server listeners
\* Listener callables: 1 and 2 are two objects that compare equal (the same
\* function bound twice), 3 is another function.
Listeners ==
    {[id |-> 1, fn |-> "on_a"], [id |-> 2, fn |-> "on_a"], [id |-> 3, fn |-> "on_b"]}
EventNames == {"join", "leave"}

\* faulty variant: `e != func` (equality instead of identity)
IsNotMut(e, func) == e.fn # func.fn
\* `e is not func`
IsNot(e, func) == e.id # func.id

\* self.add_server_listener(func, name)
add_server_listener(func, name) ==
    /\ call' = [op |-> "add_server_listener", func |-> func, name |-> name]
    /\ raised' = ""
    /\ server_events' =
         IF name \in DOMAIN server_events
         THEN [server_events EXCEPT ![name] = Append(@, func)]
         ELSE DictPut(server_events, name, <<func>>)
    /\ UNCHANGED <<cmds, ctx, all_commands, server_commands>>

\* self.remove_server_listener(func, name): self.server_events[name] raises
\* KeyError for a name that has no entry
remove_server_listener(func, name) ==
    /\ call' = [op |-> "remove_server_listener", func |-> func, name |-> name]
    /\ IF name \notin DOMAIN server_events
       THEN /\ raised' = "KeyError"
            /\ UNCHANGED server_events
       ELSE /\ raised' = ""
            /\ server_events' =
                 [server_events EXCEPT ![name] = SelectSeq(@, LAMBDA e : IsNot(e, func))]
    /\ UNCHANGED <<cmds, ctx, all_commands, server_commands>>

AddServerListener ==
    /\ \E func \in Listeners, name \in EventNames :
          /\ name \in DOMAIN server_events => Len(server_events[name]) < MaxListeners
          /\ add_server_listener(func, name)
    /\ UNCHANGED <<tvars, pvars>>

RemoveServerListener ==
    /\ \E func \in Listeners, name \in EventNames : remove_server_listener(func, name)
    /\ UNCHANGED <<tvars, pvars>>

ListenersNext ==
    \/ AddServerListener
    \/ RemoveServerListener

\* ============================================================== rpc handlers
RpcNames == {"ping", "stats"}
RpcHandlers == {"h1", "h2"}

\* self.add_rpc_handler(handler, name)
add_rpc_handler(handler, name) ==
    /\ call' = [op |-> "add_rpc_handler", handler |-> handler, name |-> name]
    /\ raised' = ""
    /\ rpc_handlers' = DictPut(rpc_handlers, name, handler)
    /\ UNCHANGED <<cmds, ctx, rvars, processing_plugin, cogs, loading>>

\* faulty variant: every handler is dropped
remove_rpc_handlerMut(name) ==
    /\ call' = [op |-> "remove_rpc_handler", name |-> name]
    /\ raised' = ""
    /\ rpc_handlers' = <<>>
    /\ UNCHANGED <<cmds, ctx, rvars, processing_plugin, cogs, loading>>

\* self.remove_rpc_handler(name): `del self.rpc_handlers[name]` raises
\* KeyError for a name that has no entry
remove_rpc_handler(name) ==
    /\ call' = [op |-> "remove_rpc_handler", name |-> name]
    /\ IF name \notin DOMAIN rpc_handlers
       THEN /\ raised' = "KeyError"
            /\ UNCHANGED rpc_handlers
       ELSE /\ raised' = ""
            /\ rpc_handlers' = DictDel(rpc_handlers, name)
    /\ UNCHANGED <<cmds, ctx, rvars, processing_plugin, cogs, loading>>

AddRpcHandler ==
    /\ \E handler \in RpcHandlers, name \in RpcNames : add_rpc_handler(handler, name)
    /\ UNCHANGED tvars

RemoveRpcHandler ==
    /\ \E name \in RpcNames : remove_rpc_handler(name)
    /\ UNCHANGED tvars

\* The other registries of the bot, each filled with one entry: a root command
\* named "a", a native command, a listener of "join".
GroupCommand ==
    /\ cmds = <<>>
    /\ \E kwargs \in Kwargs({Some("a")}, {Nothing}, {Nothing}), func \in RegistryHandlers :
          command(kwargs, func)
    /\ UNCHANGED <<tvars, rvars, pvars>>

GroupAddCommand ==
    /\ \E cmd \in {n \in NativeCommands : n.id = 2}
                    \cup {ServerCommandRef(c) : c \in DOMAIN cmds} :
          add_command(cmd)
    /\ UNCHANGED <<tvars, pvars>>

GroupAddListener ==
    /\ \E func \in {l \in Listeners : l.id = 1} :
          /\ "join" \notin DOMAIN server_events
          /\ add_server_listener(func, "join")
    /\ UNCHANGED <<tvars, pvars>>

RpcNext ==
    \/ GroupCommand
    \/ GroupAddCommand
    \/ GroupAddListener
    \/ AddRpcHandler
    \/ RemoveRpcHandler

\* ========================================================== cogs and plugins
Plugins == {"p1", "p2"}

\* The classes handed to add_cog: a Cog subclass whose __init__ takes the bot
\* and the plugin, a Cog subclass whose __init__ takes neither (the call with
\* them raises TypeError), and a class that is no Cog.
CogClasses ==
    {[name |-> "PluginCog", is_cog |-> TRUE, takes_plugin |-> TRUE],
     [name |-> "PlainCog", is_cog |-> TRUE, takes_plugin |-> FALSE],
     [name |-> "NotACog", is_cog |-> FALSE, takes_plugin |-> FALSE]}

\* faulty variant: the class is not checked
IsSubclassOfCogMut(cog) == TRUE
\* issubclass(cog, Cog)
IsSubclassOfCog(cog) == cog.is_cog

\* the load_plugin call under way (the innermost one), if any
Loading == IF loading = <<>> THEN Nothing ELSE Some(loading[Len(loading)])

\* cog(self, self.processing_plugin), or cog() when that raises TypeError;
\* `during` remembers the load_plugin call under way at that moment
Construct(cog) ==
    [cls |-> cog.name,
     with_plugin |-> cog.takes_plugin,
     plugin |-> IF cog.takes_plugin THEN processing_plugin ELSE Nothing,
     during |-> Loading]

\* self.add_cog(cog)
add_cog(cog) ==
    /\ call' = [op |-> "add_cog", cog |-> cog]
    /\ IF ~IsSubclassOfCog(cog)
       THEN /\ raised' = "TypeError"
            /\ UNCHANGED cogs
       ELSE /\ raised' = ""
            /\ cogs' = Append(cogs, Construct(cog))
    /\ UNCHANGED <<cmds, ctx, rvars, rpc_handlers, processing_plugin, loading>>

AddCog ==
    /\ \E cog \in CogClasses :
          /\ cog.is_cog => Len(cogs) < MaxCogs
          /\ add_cog(cog)
    /\ UNCHANGED tvars

\* faulty variant: the attribute is cleared when the call returns
ProcessingAfterReturnMut(plugin) == Nothing
\* load_plugin has no statement after super().load_extension: the attribute
\* keeps its value when the call returns
ProcessingAfterReturn(plugin) == plugin

\* self.load_plugin(plugin), up to the start of super().load_extension: the
\* extension's setup(bot) then runs and may call add_cog, load_plugin and
\* unload_plugin itself
LoadPluginStart ==
    /\ Len(loading) < MaxNesting
    /\ \E plugin \in Plugins :
          /\ call' = [op |-> "load_plugin", plugin |-> plugin]
          /\ processing_plugin' = Some(plugin)
          /\ loading' = Append(loading, plugin)
    /\ raised' = ""
    /\ UNCHANGED <<cmds, ctx, tvars, rvars, rpc_handlers, cogs>>

\* super().load_extension returns and load_plugin with it
LoadPluginReturns ==
    /\ loading # <<>>
    /\ call' = [op |-> "load_plugin returns", plugin |-> loading[Len(loading)]]
    /\ raised' = ""
    /\ processing_plugin' = ProcessingAfterReturn(processing_plugin)
    /\ loading' = SubSeq(loading, 1, Len(loading) - 1)
    /\ UNCHANGED <<cmds, ctx, tvars, rvars, rpc_handlers, cogs>>

\* super().load_extension raises (the extension is missing, is loaded
\* already, has no setup, or its setup failed) and load_plugin with it
LoadPluginRaises ==
    /\ loading # <<>>
    /\ call' = [op |-> "load_plugin raises", plugin |-> loading[Len(loading)]]
    /\ raised' = "ExtensionError"
    /\ processing_plugin' = ProcessingAfterReturn(processing_plugin)
    /\ loading' = SubSeq(loading, 1, Len(loading) - 1)
    /\ UNCHANGED <<cmds, ctx, tvars, rvars, rpc_handlers, cogs>>

\* self.unload_plugin(plugin): super().unload_extension returns, or raises
\* for an extension that is not loaded
UnloadPlugin ==
    /\ \E plugin \in Plugins :
          /\ call' = [op |-> "unload_plugin", plugin |-> plugin]
          /\ processing_plugin' = Some(plugin)
    /\ raised' \in {"", "ExtensionError"}
    /\ UNCHANGED <<cmds, ctx, tvars, rvars, rpc_handlers, cogs, loading>>

PluginsNext ==
    \/ LoadPluginStart
    \/ LoadPluginReturns
    \/ LoadPluginRaises
    \/ UnloadPlugin
    \/ AddCog

AddCogNext ==
    \/ GroupCommand
    \/ GroupAddCommand
    \/ GroupAddListener
    \/ AddRpcHandler
    \/ UnloadPlugin
    \/ AddCog

\* ============================================================ update_cog_ref
Cogs == {"cog1", "cog2"}

\* self.subs.values()
SubsValues(c) == {cmds[c].subs[i].value : i \in DOMAIN cmds[c].subs}

\* self.update_cog_ref(cog): self.cog = cog, then sub.cog = cog for each sub
\* of self.subs.values()
update_cog_ref(self, cog) ==
    /\ call' = [op |-> "update_cog_ref", self |-> self, cog |-> cog]
    /\ raised' = ""
    /\ cmds' = [c \in DOMAIN cmds |->
                  IF c = self \/ c \in SubsValues(self)
                  THEN [cmds[c] EXCEPT !.cog = Some(cog)]
                  ELSE cmds[c]]
    /\ UNCHANGED ctx

UpdateCogRef ==
    /\ \E self \in DOMAIN cmds, cog \in Cogs : update_cog_ref(self, cog)
    /\ UNCHANGED <<tvars, rvars, pvars>>

CogNext ==
    \/ RegistryCommand
    \/ RegistrySub
    \/ UpdateCogRef

\* ===================================================================== build
BuildKwargs == Kwargs({Some("a"), Some("b")}, {Nothing, Some(FALSE)}, {Nothing, Some(2)})
BuildHandlers ==
    {h \in Handlers({"f"}, {<<[name |-> ParamName(1), ann |-> Bare("IntArg")]>>}) :
        h.coroutine}

\* faulty variant: an unregistered command is built like a registered one
NotRegisterMut(self) == FALSE
\* `not self.register`
NotRegister(self) == ~cmds[self].register

\* self.build(): None (Nothing) for an unregistered command, else the dict
RECURSIVE build(_)
build(self) ==
    IF NotRegister(self) THEN Nothing
    ELSE Some([name |-> cmds[self].name,
               OPLevel |-> cmds[self].op_level,
               arguments |-> cmds[self].arguments,
               subs |-> [i \in DOMAIN cmds[self].subs |->
                            build(cmds[self].subs[i].value)]])

BuildCommand ==
    /\ Len(cmds) < MaxCmds
    /\ \E kwargs \in BuildKwargs, func \in BuildHandlers : command(kwargs, func)
    /\ UNCHANGED <<tvars, rvars, pvars>>

BuildSub ==
    /\ Len(cmds) < MaxCmds
    /\ \E self \in DOMAIN cmds, kwargs \in BuildKwargs, func \in BuildHandlers :
          sub(self, kwargs, func)
    /\ UNCHANGED <<tvars, rvars, pvars>>

Build ==
    /\ \E self \in DOMAIN cmds :
          call' = [op |-> "build", self |-> self, result |-> build(self)]
    /\ raised' = ""
    /\ UNCHANGED <<cmds, ctx, tvars, rvars, pvars>>

BuildNext ==
    \/ BuildCommand
    \/ BuildSub
    \/ Build

\* ========================================================== specifications
Init == TInit /\ CInit /\ RInit /\ PInit

SpecTimers == Init /\ [][TNext]_vars

\* The polling loop runs in its own thread (asyncio.to_thread) and never
\* blocks: it is always eventually scheduled.
SpecTimersFair == SpecTimers /\ WF_vars(DispatchTimers)

SpecTimersFault == Init /\ [][TFaultNext]_vars

SpecArgs == Init /\ [][ArgsNext]_vars

SpecContext == Init /\ [][ContextNext]_vars

SpecTree == Init /\ [][TreeNext]_vars

SpecNamedTree == Init /\ [][NamedNext]_vars

SpecCog == Init /\ [][CogNext]_vars

SpecBuild == Init /\ [][BuildNext]_vars

SpecRegistry == Init /\ [][RegistryNext]_vars

SpecListeners == Init /\ [][ListenersNext]_vars

SpecRpc == Init /\ [][RpcNext]_vars

SpecAddCog == Init /\ [][AddCogNext]_vars

SpecPlugins == Init /\ [][PluginsNext]_vars

\* ================================================================ claims
\* ---------------------------------------------------------------- helpers
Ids == 1..created
Stored(id) == \E o \in objects : o.id = id
Deleted(id) == id \in Ids /\ ~Stored(id)
DispatchesOf(id) == {i \in DOMAIN dispatched : dispatched[i].event.id = id}
InQuery(id) == \E i \in DOMAIN events : events[i].id = id
InBody(id) == tpc \in {"body", "delete"} /\ event.id = id
NoExpireRecords == {o \in objects : o.expire_time = Nothing}
StoredExpired(id) ==
    \E o \in objects : o.id = id /\ o.expire_time # Nothing /\ utcnow >= o.expire_time[1]

\* C1: a record is dispatched at most once, under the name <event_tag>_expire;
\* a record that is gone was dispatched exactly once; a dispatched record is
\* deleted by the very next statement of the loop (the only state in which it
\* is dispatched and still stored is the one between dispatch and delete); and
\* a deleted record is neither in the query being iterated nor the record
\* being worked on, in this or any later polling cycle.
C1_ExpiredDispatchedOnceThenDeleted ==
    \A id \in Ids :
        /\ Cardinality(DispatchesOf(id)) <= 1
        /\ \A i \in DispatchesOf(id) :
              /\ dispatched[i].event.event_tag = "mute" => dispatched[i].name = "mute_expire"
              /\ dispatched[i].event.event_tag = "ban" => dispatched[i].name = "ban_expire"
        /\ Deleted(id) => Cardinality(DispatchesOf(id)) = 1
        /\ DispatchesOf(id) # {} => (Deleted(id) \/ (tpc = "delete" /\ event.id = id))
        /\ Deleted(id) => (~InQuery(id) /\ ~InBody(id))

\* C1 witness: a record that had expired was dispatched in one polling cycle
\* and deleted, and a later polling cycle is iterating other records.
C1_Witness ==
    \E i \in DOMAIN dispatched :
        /\ Deleted(dispatched[i].event.id)
        /\ dispatched[i].poll = "first"
        /\ polls = "later"
        /\ tpc = "body"
        /\ created >= 2

\* C2: no notification is ever dispatched for a record without expire_time,
\* no step removes such a record from the collection, and every step that is
\* not the creation of a record (every step of the dispatcher, every tick of
\* the clock) leaves the set of such records unchanged.
C2_NoExpireLeftUntouched ==
    /\ [](\A i \in DOMAIN dispatched : dispatched[i].event.expire_time # Nothing)
    /\ [][/\ NoExpireRecords \subseteq NoExpireRecords'
          /\ created' = created => NoExpireRecords' = NoExpireRecords]_vars

\* C2 witness: the dispatcher has worked through a record without expire_time
\* in a later polling cycle, the clock is at its end, and the record is still
\* stored.
C2_Witness ==
    /\ utcnow = MaxTime
    /\ polls = "later"
    /\ tpc = "for"
    /\ event \in NoExpireRecords

\* C3: no record is dispatched while the clock is before its expire_time, and
\* (the polling loop being scheduled fairly) a stored record whose expire_time
\* is reached is eventually dispatched once and deleted.
C3_ExpiryLiveness ==
    /\ [](\A i \in DOMAIN dispatched :
            dispatched[i].at >= dispatched[i].event.expire_time[1])
    /\ \A id \in 1..MaxEvents :
          StoredExpired(id) ~> (Deleted(id) /\ Cardinality(DispatchesOf(id)) = 1)

\* C3 witness: a record was dispatched at or after its expire_time and deleted,
\* while an older record whose expire_time is still ahead stays stored and
\* undispatched.
C3_Witness ==
    \E i \in DOMAIN dispatched :
        /\ dispatched[i].at >= dispatched[i].event.expire_time[1]
        /\ Deleted(dispatched[i].event.id)
        /\ \E o \in objects :
              /\ o.id < dispatched[i].event.id
              /\ o.expire_time # Nothing
              /\ utcnow < o.expire_time[1]
              /\ DispatchesOf(o.id) = {}
              /\ polls = "later"

\* ---------------------------------------------------------------- helpers
\* the names from the root down to the command, joined with dots
RECURSIVE ChainName(_)
ChainName(c) ==
    IF cmds[c].parent = Nothing THEN cmds[c].name
    ELSE ChainName(cmds[c].parent[1]) \o "." \o cmds[c].name
RECURSIVE Depth(_)
Depth(c) == IF cmds[c].parent = Nothing THEN 1 ELSE 1 + Depth(cmds[c].parent[1])

\* C4: every entry of server_commands is a ServerCommand under its dot-joined
\* full name and every entry of the native registry is a native command under
\* its name; adding a ServerCommand writes that one entry of server_commands
\* and leaves the native registry alone, adding a native command leaves
\* server_commands alone, and remove_command(n) for n in server_commands
\* removes exactly that entry and leaves the native registry alone.
C4_SeparateRegistries ==
    /\ [](/\ \A n \in DOMAIN server_commands :
               /\ server_commands[n].kind = "server"
               /\ ChainName(server_commands[n].id) = n
          /\ \A n \in DOMAIN all_commands :
               /\ all_commands[n].kind = "native"
               /\ all_commands[n].name = n)
    /\ [][/\ (call'.op = "add_command" /\ call'.command.kind = "server") =>
               /\ all_commands' = all_commands
               /\ DOMAIN server_commands' =
                      DOMAIN server_commands \cup {ChainName(call'.command.id)}
               /\ server_commands'[ChainName(call'.command.id)] = call'.command
               /\ \A n \in DOMAIN server_commands \ {ChainName(call'.command.id)} :
                      server_commands'[n] = server_commands[n]
          /\ (call'.op = "add_command" /\ call'.command.kind = "native") =>
               server_commands' = server_commands
          /\ (call'.op = "remove_command" /\ call'.name \in DOMAIN server_commands) =>
               /\ all_commands' = all_commands
               /\ DOMAIN server_commands' = DOMAIN server_commands \ {call'.name}
               /\ \A n \in DOMAIN server_commands' :
                      server_commands'[n] = server_commands[n]]_vars

\* C4 witness: two native commands ("a", "b") and the subcommand "a.b" are
\* registered, and remove_command("a") has just removed the ServerCommand "a"
\* (the native "a" is still there, so the call took the server_commands path).
C4_Witness ==
    /\ call.op = "remove_command"
    /\ call.name = "a"
    /\ DOMAIN all_commands = {"a", "b"}
    /\ DOMAIN server_commands = {"a.b"}

\* ---------------------------------------------------------------- helpers
KeptPositions(old, func) == {i \in DOMAIN old : old[i].id # func.id}
\* new is old without the entries identical to func, the rest in place
RemovedOnly(old, new, func) ==
    /\ Len(new) = Cardinality(KeptPositions(old, func))
    /\ \A i \in KeptPositions(old, func) :
          new[Cardinality({j \in KeptPositions(old, func) : j <= i})] = old[i]

\* C5: add_server_listener(f, name) puts f at the end of server_events[name]
\* (a new list for a new name), remove_server_listener(f, name) takes out of
\* server_events[name] the entries identical to f and keeps every other entry
\* in its place relative to the others, and both leave the list of every other
\* event name as it was.
C5_ListenersOrderedRemovedByIdentity ==
    [][/\ call'.op \in {"add_server_listener", "remove_server_listener"} =>
            \A n \in DOMAIN server_events \ {call'.name} :
                n \in DOMAIN server_events' /\ server_events'[n] = server_events[n]
       /\ call'.op = "add_server_listener" =>
            /\ DOMAIN server_events' = DOMAIN server_events \cup {call'.name}
            /\ server_events'[call'.name] =
                   (IF call'.name \in DOMAIN server_events
                    THEN server_events[call'.name] ELSE <<>>) \o <<call'.func>>
       /\ call'.op = "remove_server_listener" =>
            /\ DOMAIN server_events' = DOMAIN server_events
            /\ call'.name \in DOMAIN server_events =>
                   RemovedOnly(server_events[call'.name], server_events'[call'.name],
                               call'.func)]_vars

\* C5 witness: listener 2 has just been removed from a list that still holds
\* listener 1 (equal to it but another object) before listener 3, while the
\* other event name has listeners too.
C5_Witness ==
    /\ call.op = "remove_server_listener"
    /\ call.func.id = 2
    /\ raised = ""
    /\ server_events[call.name] = <<[id |-> 1, fn |-> "on_a"], [id |-> 3, fn |-> "on_b"]>>
    /\ \E n \in DOMAIN server_events : n # call.name /\ Len(server_events[n]) = MaxListeners

\* ---------------------------------------------------------------- helpers
\* The parameters of a handler that declare arguments, in declaration order:
\* every annotated parameter but the context (and not the result annotation).
IsDeclared(h) == h.name # "return" /\ h.ann.origin # "ServerCommandContext"
Declared(func) == SelectSeq(func.hints, IsDeclared)
IsWrapped(ann) == Len(ann.args) > 0
Resolved(ann) == IF IsWrapped(ann) THEN Head(ann.args) ELSE ann.origin
RequiredAfterOptional(func) ==
    \E i, j \in DOMAIN Declared(func) :
        i < j /\ IsWrapped(Declared(func)[i].ann) /\ ~IsWrapped(Declared(func)[j].ann)
NotArgumentType(func) ==
    \E i \in DOMAIN Declared(func) :
        Resolved(Declared(func)[i].ann) \notin {"IntArg", "PlayerArg"}
BadSignature(func) == RequiredAfterOptional(func) \/ NotArgumentType(func)

\* C6: a command() or .sub() call whose handler has a required argument after
\* an optional-wrapped one, or a parameter whose type is no ArgumentType
\* subtype, raises (ArgumentError when the handler is a coroutine function),
\* constructs no ServerCommand and leaves every existing command, the parent's
\* subs included, as it was.
C6_BadSignatureRejected ==
    [][(call'.op \in {"command", "sub"} /\ call' # call /\ BadSignature(call'.func))
        => /\ raised' # ""
           /\ call'.func.coroutine => raised' = "ArgumentError"
           /\ cmds' = cmds]_vars

\* C6 witness: a .sub() call with a required argument after an optional one
\* has raised ArgumentError and the parent has no subcommand.
C6_Witness ==
    /\ call.op = "sub"
    /\ RequiredAfterOptional(call.func)
    /\ ~NotArgumentType(call.func)
    /\ raised = "ArgumentError"
    /\ Len(cmds) = 1
    /\ cmds[1].subs = <<>>

\* C7: the descriptors of an accepted handler are its declared parameters in
\* declaration order, each with the REPR of its type, and optional is true
\* exactly for the optional-wrapped parameters, which are the trailing ones.
C7_OptionalMarksTrailing ==
    \A c \in DOMAIN cmds :
        LET decl == Declared(cmds[c].callback)
            args == cmds[c].arguments
        IN /\ Len(args) = Len(decl)
           /\ \A i \in DOMAIN args :
                 /\ args[i].name = decl[i].name
                 /\ args[i].optional = IsWrapped(decl[i].ann)
                 /\ args[i].type = (IF Resolved(decl[i].ann) = "IntArg" THEN "int" ELSE "player")
                 /\ \A j \in DOMAIN args : (i < j /\ args[i].optional) => args[j].optional

\* C7 witness: a command whose handler declares a required argument followed
\* by an optional-wrapped one.
C7_Witness ==
    \E c \in DOMAIN cmds :
        /\ Len(cmds[c].arguments) = MaxParams
        /\ ~cmds[c].arguments[1].optional
        /\ cmds[c].arguments[MaxParams].optional

\* ---------------------------------------------------------------- helpers
\* the last create_context call: the names its command declares, the args
\* mapping its payload carried, and the context it returned
CalledContext == call.op = "create_context" /\ raised = ""
DeclaredNames == {cmds[call.self].arguments[i].name : i \in DOMAIN cmds[call.self].arguments}
CarriesArgs == call.data.args.kind = "dict"
PayloadBefore == IF CarriesArgs THEN call.data.args.value ELSE <<>>

\* C8 (as claimed): the restricted mapping has exactly the entries of the
\* payload's args whose key is a declared argument name.
C8_ExactlyCarriedDeclared ==
    CalledContext =>
        /\ DOMAIN ctx[1].args = DeclaredNames \cap DOMAIN PayloadBefore
        /\ \A k \in DOMAIN ctx[1].args : ctx[1].args[k] = PayloadBefore[k]

\* C8 (amended): the restricted mapping has exactly one entry per declared
\* argument name (none for an undeclared key): the payload's value when the
\* payload carries the name, None when it does not.
C8_OneEntryPerDeclared ==
    CalledContext =>
        /\ DOMAIN ctx[1].args = DeclaredNames
        /\ \A k \in DeclaredNames :
              /\ k \in DOMAIN PayloadBefore => ctx[1].args[k] = PayloadBefore[k]
              /\ k \notin DOMAIN PayloadBefore => ctx[1].args[k] = "None"

\* C8 witness: a command declaring two arguments, a payload carrying the
\* first (truthy) and "z" but not the second.
C8_Witness ==
    /\ CalledContext
    /\ Cardinality(DeclaredNames) = 2
    /\ \E k \in DeclaredNames : k \in DOMAIN PayloadBefore /\ ctx[1].args[k] = "1"
    /\ \E k \in DeclaredNames : k \notin DOMAIN PayloadBefore
    /\ "z" \in DOMAIN PayloadBefore

\* C9: after create_context the payload's args mapping holds no declared
\* argument name, whatever value it carried, and every undeclared key with its
\* value.
C9_DeclaredKeysRemoved ==
    (CalledContext /\ CarriesArgs) =>
        /\ \A k \in DeclaredNames : k \notin DOMAIN ctx[1].full_args[1]
        /\ \A k \in DOMAIN PayloadBefore \ DeclaredNames :
              /\ k \in DOMAIN ctx[1].full_args[1]
              /\ ctx[1].full_args[1][k] = PayloadBefore[k]

\* C10: full_name of every command is the names on its parent chain joined
\* with '.', root name first and its own name last; a root's full_name is its
\* name.
C10_FullNameRootToLeaf ==
    \A c \in DOMAIN cmds :
        /\ full_name(c) = ChainName(c)
        /\ cmds[c].parent = Nothing => full_name(c) = cmds[c].name

\* C10 witness: a three-level tree a -> b -> f whose leaf is named "a.b.f".
C10_Witness ==
    \E c \in DOMAIN cmds :
        /\ Depth(c) = 3
        /\ cmds[c].name = "f"
        /\ full_name(c) = "a.b.f"

\* ---------------------------------------------------------------- helpers
\* c is the subsub of a tree root -> sub -> subsub
IsSubsubOfSubOfRoot(c) ==
    /\ cmds[c].name = "subsub"
    /\ cmds[c].parent # Nothing
    /\ cmds[cmds[c].parent[1]].name = "sub"
    /\ cmds[cmds[c].parent[1]].parent # Nothing
    /\ cmds[cmds[cmds[c].parent[1]].parent[1]].name = "root"
    /\ cmds[cmds[cmds[c].parent[1]].parent[1]].parent = Nothing

\* C11 (as claimed): in a tree root -> sub -> subsub, subsub.full_name is
\* "subsub.sub.root".
C11_SubsubSubRoot ==
    \A c \in DOMAIN cmds : IsSubsubOfSubOfRoot(c) => full_name(c) = "subsub.sub.root"

\* C11 (amended): in a tree root -> sub -> subsub, subsub.full_name is
\* "root.sub.subsub".
C11_RootSubSubsub ==
    \A c \in DOMAIN cmds : IsSubsubOfSubOfRoot(c) => full_name(c) = "root.sub.subsub"

\* C11 witness: the tree root -> sub -> subsub has been built.
C11_Witness ==
    \E c \in DOMAIN cmds : IsSubsubOfSubOfRoot(c) /\ call.op = "sub"

\* ---------------------------------------------------------------- helpers
\* the subcommands of c at every depth: the values of c.subs and of their subs
RECURSIVE SubsBelow(_)
SubsBelow(c) ==
    SubsValues(c) \cup UNION {SubsBelow(d) : d \in SubsValues(c)}

\* C12 (as claimed): after update_cog_ref(cog) on a command, the command and
\* every subcommand below it, at every depth, has that cog.
C12_CogSetAtEveryDepth ==
    (call.op = "update_cog_ref") =>
        \A c \in {call.self} \cup SubsBelow(call.self) : cmds[c].cog = Some(call.cog)

\* ---------------------------------------------------------------- helpers
\* r is what the claim says build() returns for command c
RECURSIVE BuiltAsClaimed(_, _)
BuiltAsClaimed(c, r) ==
    IF ~cmds[c].register THEN r = Nothing
    ELSE /\ r # Nothing
         /\ DOMAIN r[1] = {"name", "OPLevel", "arguments", "subs"}
         /\ r[1].name = cmds[c].name
         /\ r[1].OPLevel = cmds[c].op_level
         /\ r[1].arguments = cmds[c].arguments
         /\ Len(r[1].subs) = Len(cmds[c].subs)
         /\ \A i \in DOMAIN cmds[c].subs :
               BuiltAsClaimed(cmds[c].subs[i].value, r[1].subs[i])

\* C13: build() returns None for a command with register false; for a
\* registered command it returns the mapping {name, OPLevel, arguments, subs}
\* whose subs has one entry per child of the subs mapping, in its iteration
\* order, each the child's own build() result (None for an unregistered
\* child), recursively.
C13_BuildResult ==
    (call.op = "build") => BuiltAsClaimed(call.self, call.result)

\* C13 witness: build() of a registered command with an unregistered child
\* followed by a registered child.
C13_Witness ==
    /\ call.op = "build"
    /\ cmds[call.self].register
    /\ Len(cmds[call.self].subs) = 2
    /\ ~cmds[cmds[call.self].subs[1].value].register
    /\ cmds[cmds[call.self].subs[2].value].register
    /\ call.result[1].subs[1] = Nothing
    /\ call.result[1].subs[2] # Nothing

\* C14: add_cog with a class that is no subclass of Cog raises TypeError,
\* leaves the native commands, the cogs, server_commands, server_events,
\* rpc_handlers and processing_plugin as they were, and constructs no Cog.
C14_NonCogRejected ==
    [][(call'.op = "add_cog" /\ ~call'.cog.is_cog) =>
          /\ raised' = "TypeError"
          /\ UNCHANGED <<all_commands, cogs, server_commands, server_events,
                         rpc_handlers, processing_plugin>>]_vars

\* C14 witness: a class that is no Cog was refused by a bot whose registries
\* and processing_plugin are all set.
C14_Witness ==
    /\ call.op = "add_cog"
    /\ ~call.cog.is_cog
    /\ raised = "TypeError"
    /\ all_commands # <<>>
    /\ cogs # <<>>
    /\ server_commands # <<>>
    /\ server_events # <<>>
    /\ rpc_handlers # <<>>
    /\ processing_plugin # Nothing

\* C15: rpc_handlers holds one handler per name: add_rpc_handler(h, n) makes h
\* the handler of n (replacing an earlier one) and leaves the other names
\* alone; remove_rpc_handler(n) for a name that is there deletes that key and
\* no other; for a name that is not there it raises and leaves rpc_handlers,
\* server_commands and server_events as they were.
C15_RpcHandlersOnePerName ==
    [][/\ (call'.op = "add_rpc_handler") =>
            /\ DOMAIN rpc_handlers' = DOMAIN rpc_handlers \cup {call'.name}
            /\ rpc_handlers'[call'.name] = call'.handler
            /\ \A n \in DOMAIN rpc_handlers \ {call'.name} :
                  rpc_handlers'[n] = rpc_handlers[n]
       /\ (call'.op = "remove_rpc_handler" /\ call'.name \in DOMAIN rpc_handlers) =>
            /\ raised' = ""
            /\ DOMAIN rpc_handlers' = DOMAIN rpc_handlers \ {call'.name}
            /\ \A n \in DOMAIN rpc_handlers' : rpc_handlers'[n] = rpc_handlers[n]
       /\ (call'.op = "remove_rpc_handler" /\ call'.name \notin DOMAIN rpc_handlers) =>
            /\ raised' # ""
            /\ UNCHANGED <<rpc_handlers, server_commands, server_events>>]_vars

\* C15 witness: removing a name that has no handler raised, on a bot that has
\* another handler, a server command and a listener.
C15_Witness ==
    /\ call.op = "remove_rpc_handler"
    /\ raised = "KeyError"
    /\ call.name \notin DOMAIN rpc_handlers
    /\ rpc_handlers # <<>>
    /\ server_commands # <<>>
    /\ server_events # <<>>

\* C16 (as claimed): a failure raised by the dispatch or by the delete of one
\* expired record does not halt the polling loop: the loop still has a next
\* step to take (the rest of that cycle, then the later cycles).
C16_FailureDoesNotHaltPolling ==
    (tpc = "raised") => ENABLED DispatchTimers

\* ---------------------------------------------------------------- helpers
\* func is one of the listeners registered under name
RegisteredUnder(func, name) ==
    /\ name \in DOMAIN server_events
    /\ \E i \in DOMAIN server_events[name] : server_events[name][i].id = func.id

\* C17 (as claimed): remove_server_listener(f, name) for a listener f that is
\* not registered under name raises nothing and leaves server_events as it
\* was, whether name has other listeners or never had one.
C17_RemoveUnregisteredIsNoOp ==
    [][(call'.op = "remove_server_listener"
            /\ ~RegisteredUnder(call'.func, call'.name)) =>
          /\ raised' = ""
          /\ UNCHANGED server_events]_vars

\* C18 (as claimed): every Cog that add_cog constructs with a plugin argument
\* while a load_plugin(p) call is under way is constructed with p, whatever
\* load_plugin and unload_plugin calls came before it, the ones made by the
\* extension being loaded included.
C18_CogGetsLoadingPlugin ==
    \A i \in DOMAIN cogs :
        (cogs[i].during # Nothing /\ cogs[i].with_plugin) =>
            cogs[i].plugin = cogs[i].during

\* C19: processing_plugin is None until the first load_plugin or unload_plugin
\* call; each such call sets it to its plugin, and nothing else writes it,
\* neither the return nor the failure of a call; add_cog hands the value to
\* the Cog it constructs, also outside any load.
C19_ProcessingPluginIsLastStarted ==
    /\ processing_plugin = Nothing
    /\ [][/\ (call'.op \in {"load_plugin", "unload_plugin"}) =>
               processing_plugin' = Some(call'.plugin)
          /\ (call'.op \notin {"load_plugin", "unload_plugin"}) =>
               UNCHANGED processing_plugin
          /\ (call'.op = "add_cog" /\ call'.cog.is_cog /\ call'.cog.takes_plugin) =>
               cogs'[Len(cogs')].plugin = processing_plugin]_vars

\* C19 witness: outside any load, after a load_plugin call has returned or
\* failed, add_cog constructed a Cog with the plugin of that call.
C19_Witness ==
    /\ call.op = "add_cog"
    /\ raised = ""
    /\ loading = <<>>
    /\ cogs # <<>>
    /\ cogs[Len(cogs)].during = Nothing
    /\ cogs[Len(cogs)].plugin # Nothing
    /\ cogs[Len(cogs)].plugin = processing_plugin

\* ---------------------------------------------------------------- helpers
\* the command n parent links above c, if the chain is that long
RECURSIVE Up(_, _)
Up(c, n) ==
    IF n = 0 THEN Some(c)
    ELSE IF cmds[c].parent = Nothing THEN Nothing
    ELSE Up(cmds[c].parent[1], n - 1)

\* the parent chain of c ends: it has no more links than there are commands
ChainEnds(c) == Up(c, Len(cmds)) = Nothing

\* c.subs has an entry under key k
HasSub(c, k) == \E i \in DOMAIN cmds[c].subs : cmds[c].subs[i].key = k

\* the command stored in c.subs under key k
SubOf(c, k) ==
    cmds[c].subs[CHOOSE i \in DOMAIN cmds[c].subs : cmds[c].subs[i].key = k].value

\* C20: after any sequence of command() and .sub() calls, every command
\* stored in c.subs under key k has name k and parent c; every parent chain
\* ends (no cycle); root_parent of a command is the one command of its parent
\* chain that has no parent (the command itself when it is a root); and a
\* .sub() under a name already in use replaces the entry: the earlier
\* subcommand keeps its parent but is no longer in the parent's subs.
C20_TreeWellFormed ==
    /\ [](\A c \in DOMAIN cmds :
            /\ \A i \in DOMAIN cmds[c].subs :
                  /\ cmds[c].subs[i].value \in DOMAIN cmds
                  /\ cmds[cmds[c].subs[i].value].name = cmds[c].subs[i].key
                  /\ cmds[cmds[c].subs[i].value].parent = Some(c)
            /\ ChainEnds(c)
            /\ cmds[root_parent(c)].parent = Nothing
            /\ \E n \in 0..Len(cmds) : Up(c, n) = Some(root_parent(c))
            /\ cmds[c].parent = Nothing => root_parent(c) = c)
    /\ [][(/\ call'.op = "sub"
           /\ raised' = ""
           /\ HasSub(call'.parent[1], cmds'[Len(cmds')].name)) =>
            LET self == call'.parent[1]
                k == cmds'[Len(cmds')].name
                old == SubOf(self, k)
            IN /\ cmds'[old].parent = Some(self)
               /\ \A i \in DOMAIN cmds'[self].subs : cmds'[self].subs[i].value # old
               /\ Len(cmds'[self].subs) = Len(cmds[self].subs)
               /\ \E i \in DOMAIN cmds'[self].subs :
                     cmds'[self].subs[i] = [key |-> k, value |-> Len(cmds')]]_vars

\* C20 witness: a .sub() call has replaced a subcommand, which still names
\* its parent and is in no subs mapping, in a tree three commands deep or wide.
C20_Witness ==
    /\ call.op = "sub"
    /\ raised = ""
    /\ Len(cmds) = MaxCmds
    /\ \E c \in DOMAIN cmds :
          /\ cmds[c].parent # Nothing
          /\ c \notin SubsValues(cmds[c].parent[1])
          /\ HasSub(cmds[c].parent[1], cmds[c].name)
          /\ root_parent(c) = cmds[c].parent[1]

====
